---- MODULE Spec2Model ----
(***************************************************************************)
(* Purchase-requisition workflow of src/app.py: the request handlers       *)
(* pr_new, budget_exception_approval and create_po running on worker       *)
(* threads against one SQLite database.  Each thread owns one connection   *)
(* (thread_local.connection).  A SELECT outside a transaction reads the     *)
(* last committed state.  The first write statement of a handler opens an  *)
(* implicit transaction that holds the database write lock; it ends with   *)
(* the commit at the exit of the nested db() block of log_action, or with  *)
(* the rollback of db() when a statement raises.  No other connection sees *)
(* or interleaves with the writes of an open transaction, so a handler's   *)
(* transaction is one step of the model and its SELECTs before it are      *)
(* separate steps.                                                         *)
(* SpecUow follows one thread's connection through db() statement by       *)
(* statement, with failing statements, commits and connects.               *)
(***************************************************************************)
EXTENDS Integers, Sequences, FiniteSets, TLC

\* ------------------------------------------------------------------ bounds
NumThreads == 2
MaxHistory == 4
MaxPR == 2
MaxItems == 2

Threads == 1..NumThreads

\* ------------------------------------------------------- program constants
BUDGET_STATUS ==
  [IN_BUDGET |-> "IN_BUDGET", OUT_OF_BUDGET |-> "OUT_OF_BUDGET",
   EXCEPTION_APPROVED |-> "EXCEPTION_APPROVED",
   EXCEPTION_PENDING |-> "BUDGET_EXCEPTION_PENDING"]

PR_STATUS ==
  [SUBMITTED |-> "SUBMITTED", PO_CREATED |-> "PO_CREATED",
   CLOSED |-> "CLOSED", REJECTED |-> "REJECTED"]

NULL == "NULL"

\* ------------------------------------------------------------ input domains
\* Text values are sequences of characters so that upper() and strip() are
\* computed, not assumed.
DeptIT == <<"I", "T">>
DeptFin == <<"F", "i", "n">>
Departments == {DeptIT, DeptFin}
Categories == {"Hardware"}
CurrentYear == "Y1"
FiscalYears == {"Y1"}

\* users table: id -> role (create_initial_users); 0 is "no session"
UserRole == [u \in 1..3 |->
  CASE u = 1 -> "user" [] u = 2 -> "superadmin" [] OTHER -> "procurement"]
Sessions == 0..3

\* form values of item total_price: text that float() parses to val, or
\* text that float() rejects
Price(n) == [num |-> TRUE, val |-> n]
NotANumber == [num |-> FALSE, val |-> 0]
ItemPrices == {Price(2), Price(-2), NotANumber}

\* the JSON item lists submitted: up to MaxItems items; a negative price is
\* submitted as the only item of its list
ItemLists ==
  {its \in UNION {[1..n -> ItemPrices] : n \in 0..MaxItems} :
     \A i \in DOMAIN its : its[i] = Price(-2) => Len(its) = 1}

QuotationFiles == {"missing", "empty_name", "named"}
FileTypes == {"bad_ext", "ok"}
VendorCodes == {"none", "active", "unknown"}

\* the quantity and unit_price texts of the items: all numeric, or one that
\* int() or float() rejects
ItemFields == {"numeric", "bad_quantity"}
Comments == {"c1"}
RawPoNos == {<<>>, <<" ">>, <<"A">>, <<" ", "A">>, <<"B">>}

\* --------------------------------------------------------- pure functions
UpperChar(c) ==
  CASE c = "i" -> "I" [] c = "n" -> "N" [] c = "t" -> "T" [] OTHER -> c

\* str.upper()
Upper(s) == [i \in DOMAIN s |-> UpperChar(s[i])]

RECURSIVE LStrip(_)
LStrip(s) == IF s # <<>> /\ Head(s) = " " THEN LStrip(Tail(s)) ELSE s

RECURSIVE RStrip(_)
RStrip(s) ==
  IF s # <<>> /\ s[Len(s)] = " " THEN RStrip(SubSeq(s, 1, Len(s) - 1)) ELSE s

\* str.strip()
Strip(s) == RStrip(LStrip(s))

\* float(v) succeeds
IsFloat(v) == v.num

\* float(v)
Float(v) == v.val

RECURSIVE SumSeq(_)
SumSeq(s) == IF s = <<>> THEN 0 ELSE Head(s) + SumSeq(Tail(s))

\* ------------------------------------------------------------------- state
VARIABLES
  db,      \* committed database: one field per table
  req,     \* per thread: the request it is serving and its local variables
  resp,    \* the response a handler has returned and the server is sending
  uow      \* one thread's connection and its db() units of work, statement
           \* by statement

vars == <<db, req, resp, uow>>

\* rows inserted by init_db
InitBudgets ==
  (<<DeptIT, "Hardware", "Y1">> :> [allocated_amount |-> 4, spent_amount |-> 0])
  @@ (<<DeptIT, "Hardware", "Y0">> :> [allocated_amount |-> 2, spent_amount |-> 0])

\* budget_categories.remaining_amount GENERATED ALWAYS AS (allocated - spent)
remaining_amount(row) == row.allocated_amount - row.spent_amount

InitDB ==
  [budget_categories |-> InitBudgets,
   pr |-> <<>>,              \* id -> row
   pr_seq |-> 0,             \* sqlite_sequence of pr (AUTOINCREMENT)
   pr_items |-> <<>>,        \* pr_id -> total_price of item_no 1..n
   pr_quotation |-> <<>>,    \* rows, each the pr_id it belongs to
   po |-> <<>>,              \* rows in id order
   approval_history |-> <<>>,
   audit_log |-> 0,          \* number of rows
   notifications |-> 0]      \* number of rows

\* budget_check = None
NoCheck ==
  [checked |-> FALSE, available |-> FALSE, remaining |-> 0, message |-> "none"]

IdleReq ==
  [pc |-> "idle", handler |-> "none", user |-> 0, method |-> "GET",
   pr_id |-> 0, action |-> "none", comments |-> "c1", po_no |-> <<>>,
   pr_total |-> 0, created_by |-> 0, department |-> <<>>,
   budget_category |-> "", fiscal_year |-> "", items |-> <<>>,
   total_amount |-> 0, budget_check |-> NoCheck, pr_no |-> <<>>]

NoResp == [thread |-> 0, handler |-> "none", pr_id |-> 0, outcome |-> "none"]

\* no connection yet (thread_local has no attribute connection), nothing
\* written, no request served
InitUow ==
  [store |-> {},          \* writes in the committed database
   pending |-> {},        \* writes of the connection's open transaction
   connected |-> FALSE,   \* hasattr(thread_local, 'connection')
   phase |-> "idle",      \* position of the handler's db() generator
   pc |-> 0,              \* next statement of the handler's block
   attempt |-> 0,         \* loop variable of the handler's db() call
   slept |-> <<>>,        \* the time.sleep() waits of that call, in ms
   runs |-> <<>>]         \* the requests served, in order

Init ==
  /\ db = InitDB
  /\ req = [t \in Threads |-> IdleReq]
  /\ resp = NoResp
  /\ uow = InitUow

\* the handler returns: locals dropped, response handed to the server
Respond(t, h, pr_id, outcome) ==
  /\ req' = [req EXCEPT ![t] = IdleReq]
  /\ resp' = [thread |-> t, handler |-> h, pr_id |-> pr_id,
              outcome |-> outcome]
  /\ UNCHANGED uow

\* the request goes on with locals r
Goto(t, r) ==
  /\ req' = [req EXCEPT ![t] = r]
  /\ UNCHANGED <<resp, uow>>

\* thread t is at position pc of its handler
At(t, pc) == resp = NoResp /\ req[t].pc = pc

\* the worker pool hands a request to the first idle thread
Dispatch(t) ==
  /\ At(t, "idle")
  /\ \A t2 \in Threads : t2 < t => req[t2].pc # "idle"

\* the server sends the returned response to the client
send_response ==
  /\ resp # NoResp
  /\ resp' = NoResp
  /\ UNCHANGED <<db, req, uow>>

\* ------------------------------------------------------------ decorators
\* @login_required: a session without user_id is redirected to the login page
login_required(u) == u # 0

\* a role check that lets every logged-in session pass
role_required_Off(h, u) == TRUE

\* @role_required(*roles)
RolesRequired(h) ==
  CASE h = "pr_new" -> {"user"}
    [] h = "budget_exception_approval" -> {"superadmin"}
    [] h = "create_po" -> {"procurement", "superadmin"}

role_required(h, u) == UserRole[u] \in RolesRequired(h)

\* POST requests in flight: each may still append one approval_history row
PostsInFlight == Cardinality({t \in Threads : req[t].pc # "idle"})

\* pr_new POST requests in flight: each may still take one pr id
PrNewInFlight == Cardinality({t \in Threads : req[t].handler = "pr_new"})

\* a POST request is admitted while the tables stay within the bounds
Admit(h) ==
  /\ Len(db.approval_history) + PostsInFlight < MaxHistory
  /\ h = "pr_new" => db.pr_seq + PrNewInFlight < MaxPR

NewReq(h, u, m, id, pc) ==
  [IdleReq EXCEPT !.pc = pc, !.handler = h, !.user = u,
                          !.method = m, !.pr_id = id]

\* ------------------------------------------- log / audit / notification
\* a log_action that keeps one row per PR: INSERT OR REPLACE on pr_id
LogAction_Replace(d, pr_id, action) ==
  [d EXCEPT !.approval_history =
     Append(SelectSeq(@, LAMBDA e : e.pr_id # pr_id),
            [pr_id |-> pr_id, action |-> action])]

\* log_action(pr_id, action, comments): INSERT INTO approval_history
LogAction(d, pr_id, action) ==
  [d EXCEPT !.approval_history =
     Append(@, [pr_id |-> pr_id, action |-> action])]

\* audit_log(user_id, action, entity_type, entity_id, details)
AuditLog(d) == [d EXCEPT !.audit_log = @ + 1]

\* create_notification(user_id, ..., pr_id), once per user in users
RECURSIVE CreateNotifications(_, _)
CreateNotifications(d, users) ==
  IF users = <<>> THEN d
  ELSE CreateNotifications([d EXCEPT !.notifications = @ + 1], Tail(users))

\* what follows the writes of a successful POST: log_action (its nested
\* db() block commits the handler's transaction), audit_log and
\* create_notification (a unit of work each), then the exit of the handler's
\* own "with db()" block
LogAuditNotify(d, pr_id, action, users) ==
  CreateNotifications(AuditLog(LogAction(d, pr_id, action)), users)

\* ------------------------------------------------------------------ pr_new
\* A /pr/new request arrives on an idle worker thread: the decorators, then
\* for GET the form, for POST the file checks, the form parsing and the total
pr_new_request(t) ==
  /\ Dispatch(t)
  /\ UNCHANGED db
  /\ \E u \in Sessions :
       IF ~login_required(u) THEN Respond(t, "pr_new", 0, "login")
       ELSE IF ~role_required("pr_new", u) THEN Respond(t, "pr_new", 0, "403")
       ELSE \E m \in {"GET", "POST"} :
         IF m = "GET" THEN Respond(t, "pr_new", 0, "ok")
         ELSE \E f \in QuotationFiles :
           IF f \in {"missing", "empty_name"}
           THEN Respond(t, "pr_new", 0, "refused")
           ELSE \E its \in ItemLists :
             IF Len(its) = 0 THEN Respond(t, "pr_new", 0, "refused")
             ELSE IF \E i \in DOMAIN its : ~IsFloat(its[i])
                  THEN Respond(t, "pr_new", 0, "generic_error")
             ELSE \E d \in Departments, c \in Categories \cup {""},
                     fy \in FiscalYears :
                  LET prices == [i \in DOMAIN its |-> Float(its[i])] IN
                  /\ Admit("pr_new")
                  /\ Goto(t, [NewReq("pr_new", u, m, 0,
                                     IF c # "" THEN "check_budget_availability"
                                               ELSE "generate_pr_no")
                              EXCEPT
                              !.department = d, !.budget_category = c,
                              !.fiscal_year = fy, !.items = prices,
                              !.total_amount = SumSeq(prices)])

\* check_budget_availability without the comparison: the budget is available
\* whenever the category row exists
check_budget_availability_RowExists(bc, department, category, amount, fiscal_year, raised) ==
  LET key == <<department, category, fiscal_year>> IN
  IF raised
  THEN [checked |-> TRUE, available |-> FALSE, remaining |-> 0,
        message |-> "Error checking budget"]
  ELSE IF key \notin DOMAIN bc
  THEN [checked |-> TRUE, available |-> FALSE, remaining |-> 0,
        message |-> "Budget category not found"]
  ELSE [checked |-> TRUE, available |-> TRUE,
        remaining |-> remaining_amount(bc[key]),
        message |-> "Within budget"]

\* check_budget_availability with a strict comparison: a remaining amount
\* equal to the requested amount counts as insufficient
check_budget_availability_Strict(bc, department, category, amount, fiscal_year, raised) ==
  LET key == <<department, category, fiscal_year>> IN
  IF raised
  THEN [checked |-> TRUE, available |-> FALSE, remaining |-> 0,
        message |-> "Error checking budget"]
  ELSE IF key \notin DOMAIN bc
  THEN [checked |-> TRUE, available |-> FALSE, remaining |-> 0,
        message |-> "Budget category not found"]
  ELSE IF remaining_amount(bc[key]) > amount
  THEN [checked |-> TRUE, available |-> TRUE,
        remaining |-> remaining_amount(bc[key]),
        message |-> "Within budget"]
  ELSE [checked |-> TRUE, available |-> FALSE,
        remaining |-> remaining_amount(bc[key]),
        message |-> "Insufficient budget"]

\* check_budget_availability(department, category, amount, fiscal_year) on
\* the budget_categories table bc; raised: the query raised an exception
check_budget_availability(bc, department, category, amount, fiscal_year, raised) ==
  LET key == <<department, category, fiscal_year>> IN
  IF raised
  THEN [checked |-> TRUE, available |-> FALSE, remaining |-> 0,
        message |-> "Error checking budget"]
  ELSE IF key \notin DOMAIN bc
  THEN [checked |-> TRUE, available |-> FALSE, remaining |-> 0,
        message |-> "Budget category not found"]
  ELSE IF remaining_amount(bc[key]) >= amount
  THEN [checked |-> TRUE, available |-> TRUE,
        remaining |-> remaining_amount(bc[key]),
        message |-> "Within budget"]
  ELSE [checked |-> TRUE, available |-> FALSE,
        remaining |-> remaining_amount(bc[key]),
        message |-> "Insufficient budget"]

pr_new_check_budget(t) ==
  /\ At(t, "check_budget_availability")
  /\ UNCHANGED db
  /\ \E raised \in BOOLEAN :
       Goto(t, [req[t] EXCEPT
                !.pc = "generate_pr_no",
                !.budget_check =
                  check_budget_availability(db.budget_categories,
                    req[t].department, req[t].budget_category,
                    req[t].total_amount, req[t].fiscal_year, raised)])

\* generate_pr_no(dept): every PR of the model is created in CurrentYear, so
\* the strftime('%Y', created_at) = year condition selects all rows
generate_pr_no(prs, dept) ==
  LET count == Cardinality({id \in DOMAIN prs :
                              prs[id].department = Upper(dept)})
      seq == count + 1
  IN <<CurrentYear, Upper(dept), seq>>

pr_new_generate_pr_no(t) ==
  /\ At(t, "generate_pr_no")
  /\ UNCHANGED db
  /\ Goto(t, [req[t] EXCEPT
              !.pc = "pr_new_insert",
              !.pr_no = generate_pr_no(db.pr, req[t].department)])

\* an initial status with a draft stage: an in-budget PR starts in DRAFT
InitialStatus_Draft(budget_check) ==
  IF budget_check.checked /\ budget_check.available
  THEN [budget_status |-> BUDGET_STATUS.IN_BUDGET, status |-> "DRAFT"]
  ELSE [budget_status |-> BUDGET_STATUS.OUT_OF_BUDGET,
        status |-> "BUDGET_EXCEPTION_PENDING"]

\* initial status that stays SUBMITTED when the PR is out of budget
InitialStatus_AlwaysSubmitted(budget_check) ==
  IF budget_check.checked /\ budget_check.available
  THEN [budget_status |-> BUDGET_STATUS.IN_BUDGET, status |-> "SUBMITTED"]
  ELSE [budget_status |-> BUDGET_STATUS.OUT_OF_BUDGET, status |-> "SUBMITTED"]

\* initial (budget_status, status) of a new PR
InitialStatus(budget_check) ==
  IF budget_check.checked /\ budget_check.available
  THEN [budget_status |-> BUDGET_STATUS.IN_BUDGET, status |-> "SUBMITTED"]
  ELSE [budget_status |-> BUDGET_STATUS.OUT_OF_BUDGET,
        status |-> "BUDGET_EXCEPTION_PENDING"]

\* the reservation without fiscal_year in its WHERE clause
ReserveBudget_AllYears(bc, department, category, fiscal_year, amount) ==
  [key \in DOMAIN bc |->
     IF key[1] = department /\ key[2] = category
     THEN [bc[key] EXCEPT !.spent_amount = @ + amount]
     ELSE bc[key]]

\* the reservation as a compare-and-swap: it reserves only while the
\* remaining amount still covers the amount
ReserveBudget_Guarded(bc, department, category, fiscal_year, amount) ==
  LET key == <<department, category, fiscal_year>> IN
  IF key \in DOMAIN bc /\ remaining_amount(bc[key]) >= amount
  THEN [bc EXCEPT ![key].spent_amount = @ + amount]
  ELSE bc

\* UPDATE budget_categories SET spent_amount = spent_amount + ? WHERE ...
ReserveBudget(bc, department, category, fiscal_year, amount) ==
  LET key == <<department, category, fiscal_year>> IN
  IF key \in DOMAIN bc
  THEN [bc EXCEPT ![key].spent_amount = @ + amount]
  ELSE bc

\* an item loop that stops after the first item
InsertItems_FirstOnly(pr_items, pr_id, items) ==
  pr_id :> SubSeq(items, 1, 1) @@ pr_items

\* for idx, item in enumerate(items, 1): INSERT INTO pr_items, total_price =
\* float(item.get('total_price', 0))
InsertItems(pr_items, pr_id, items) == pr_id :> items @@ pr_items

\* the writes of pr_new without the UPDATE that stores the quotation file:
\* quotation_filename keeps the NULL of the INSERT
PrNewWrites_NullQuotation(d, r) ==
  LET st == InitialStatus(r.budget_check)
      pr_id == d.pr_seq + 1
      row == [pr_no |-> r.pr_no, fiscal_year |-> r.fiscal_year,
              created_by |-> r.user, department |-> r.department,
              budget_category |-> r.budget_category,
              budget_status |-> st.budget_status,
              budget_exception_approver |-> 0,
              budget_exception_notes |-> NULL,
              total_amount |-> r.total_amount, status |-> st.status,
              quotation_filename |-> NULL]
  IN [d EXCEPT
       !.pr = pr_id :> row @@ @,
       !.pr_seq = pr_id,
       !.pr_items = InsertItems(@, pr_id, r.items),
       !.pr_quotation = Append(@, pr_id),
       !.budget_categories =
         IF r.budget_check.checked /\ r.budget_check.available
            /\ r.budget_category # ""
         THEN ReserveBudget(@, r.department, r.budget_category,
                            r.fiscal_year, r.total_amount)
         ELSE @]

\* the rows pr_new writes: INSERT pr, UPDATE pr (quotation), INSERT pr_items,
\* INSERT pr_quotation, UPDATE budget_categories
PrNewWrites(d, r) ==
  LET st == InitialStatus(r.budget_check)
      pr_id == d.pr_seq + 1
      row == [pr_no |-> r.pr_no, fiscal_year |-> r.fiscal_year,
              created_by |-> r.user, department |-> r.department,
              budget_category |-> r.budget_category,
              budget_status |-> st.budget_status,
              budget_exception_approver |-> 0,
              budget_exception_notes |-> NULL,
              total_amount |-> r.total_amount, status |-> st.status,
              quotation_filename |-> <<"quotation", pr_id>>]
  IN [d EXCEPT
       !.pr = pr_id :> row @@ @,
       !.pr_seq = pr_id,
       !.pr_items = InsertItems(@, pr_id, r.items),
       !.pr_quotation = Append(@, pr_id),
       !.budget_categories =
         IF r.budget_check.checked /\ r.budget_check.available
            /\ r.budget_category # ""
         THEN ReserveBudget(@, r.department, r.budget_category,
                            r.fiscal_year, r.total_amount)
         ELSE @]

\* the cleanup DELETE without its WHERE id=? clause: every pr row goes, and
\* ON DELETE CASCADE takes the rows of pr_items, pr_quotation and po
InsertThenDelete_AllRows(d, r) ==
  [d EXCEPT !.pr_seq = @ + 1, !.pr = <<>>, !.pr_items = <<>>,
            !.pr_quotation = <<>>, !.po = <<>>]

\* a refused file type that leaves the inserted PR row in place
InsertThenDelete_NoDelete(d, r) ==
  [PrNewWrites(d, r) EXCEPT !.pr_items = d.pr_items,
                            !.pr_quotation = d.pr_quotation,
                            !.budget_categories = d.budget_categories]

\* INSERT INTO pr, then save_quotation_file raises ValueError (or returns
\* None): DELETE FROM pr WHERE id=?, return; the exit of the block commits
\* and the id stays consumed
InsertThenDelete(d, r) == [d EXCEPT !.pr_seq = @ + 1]

\* the unit of work of pr_new: vendor check, the writes, log_action,
\* audit_log, create_notification, commit and the success flash
pr_new_insert(t) ==
  LET r == req[t]
      pr_id == db.pr_seq + 1
  IN
  /\ At(t, "pr_new_insert")
  /\ \E vendor \in VendorCodes :
       IF vendor = "unknown"
       THEN Respond(t, "pr_new", 0, "refused") /\ UNCHANGED db
       ELSE IF \E id \in DOMAIN db.pr : db.pr[id].pr_no = r.pr_no
       THEN \* UNIQUE(pr_no): IntegrityError, rollback, "Error creating PR"
            Respond(t, "pr_new", 0, "generic_error") /\ UNCHANGED db
       ELSE \E quotation_file \in FileTypes :
         IF quotation_file = "bad_ext"
         THEN /\ db' = InsertThenDelete(db, r)
              /\ Respond(t, "pr_new", 0, "refused")
         ELSE \E item_fields \in ItemFields :
           IF item_fields = "bad_quantity"
           THEN \* ValueError in the item loop: rollback, "Error creating PR"
                Respond(t, "pr_new", 0, "generic_error") /\ UNCHANGED db
           ELSE /\ db' = LogAuditNotify(PrNewWrites(db, r), pr_id,
                                        "PR_CREATED", <<r.user>>)
                /\ Respond(t, "pr_new", pr_id, "ok")

\* ----------------------------------------------- budget_exception_approval
\* A /pr/<pr_id>/budget-exception request arrives on an idle worker thread:
\* the decorators, the SELECT of the PR and the 404 guard; GET renders the
\* page, POST reads the action
bex_request(t) ==
  /\ Dispatch(t)
  /\ UNCHANGED db
  /\ \E u \in Sessions :
       IF ~login_required(u)
       THEN Respond(t, "budget_exception_approval", 0, "login")
       ELSE IF ~role_required("budget_exception_approval", u)
            THEN Respond(t, "budget_exception_approval", 0, "403")
       ELSE \E pr_id \in 1..MaxPR :
         IF pr_id \notin DOMAIN db.pr
            \/ db.pr[pr_id].budget_status # BUDGET_STATUS.OUT_OF_BUDGET
         THEN \* abort(404) is raised inside the try and caught by
              \* "except Exception": flash + redirect to /dashboard
              Respond(t, "budget_exception_approval", pr_id, "generic_error")
         ELSE \E m \in {"GET", "POST"} :
           IF m = "GET"
           THEN Respond(t, "budget_exception_approval", pr_id, "ok")
           ELSE \E action \in {"approve", "reject", "other"} :
             IF action = "other"
             THEN Respond(t, "budget_exception_approval", pr_id, "redirect")
             ELSE \E c \in Comments :
                  /\ Admit("budget_exception_approval")
                  /\ Goto(t, [NewReq("budget_exception_approval", u, m,
                                     pr_id, "bex_update")
                              EXCEPT !.action = action, !.comments = c,
                                     !.created_by = db.pr[pr_id].created_by])

\* UPDATE pr SET budget_status=?, budget_exception_approver=?, ...,
\* status='SUBMITTED' WHERE id=?
BexApproveRow(row, user, comments) ==
  [row EXCEPT !.budget_status = BUDGET_STATUS.EXCEPTION_APPROVED,
              !.budget_exception_approver = user,
              !.budget_exception_notes = comments,
              !.status = "SUBMITTED"]

\* UPDATE pr SET status='REJECTED' WHERE id=?
BexRejectRow(row) == [row EXCEPT !.status = "REJECTED"]

\* the UPDATE of the approve or reject branch without its WHERE id=?
BexWrites_NoWhere(d, r) ==
  [d EXCEPT !.pr =
     [id \in DOMAIN @ |->
        IF r.action = "approve"
        THEN BexApproveRow(@[id], r.user, r.comments)
        ELSE BexRejectRow(@[id])]]

\* the UPDATE of the approve or reject branch
BexWrites(d, r) ==
  [d EXCEPT !.pr =
     [id \in DOMAIN @ |->
        IF id # r.pr_id THEN @[id]
        ELSE IF r.action = "approve"
             THEN BexApproveRow(@[id], r.user, r.comments)
             ELSE BexRejectRow(@[id])]]

\* the approve or reject branch: UPDATE pr, log_action, audit_log,
\* create_notification, commit and the flash
bex_update(t) ==
  LET r == req[t] IN
  /\ At(t, "bex_update")
  /\ db' = LogAuditNotify(BexWrites(db, r), r.pr_id,
             IF r.action = "approve" THEN "BUDGET_EXCEPTION_APPROVE"
                                     ELSE "BUDGET_EXCEPTION_REJECT",
             <<r.created_by>>)
  /\ Respond(t, r.handler, r.pr_id, "ok")

\* ---------------------------------------------------------------- create_po
\* a lookup of the PR's PO that never finds one
ExistingPO_Never(pos, pr_id) == FALSE

\* SELECT * FROM po WHERE pr_id=? returns a row
ExistingPO(pos, pr_id) == \E i \in DOMAIN pos : pos[i].pr_id = pr_id

\* A /procurement/po/new/<pr_id> request arrives on an idle worker thread:
\* the decorators and SELECT * FROM po WHERE pr_id=?
po_request(t) ==
  /\ Dispatch(t)
  /\ UNCHANGED db
  /\ \E u \in Sessions :
       IF ~login_required(u) THEN Respond(t, "create_po", 0, "login")
       ELSE IF ~role_required("create_po", u)
            THEN Respond(t, "create_po", 0, "403")
       ELSE \E pr_id \in 1..MaxPR :
         IF ExistingPO(db.po, pr_id)
         THEN \* flash "PR ini sudah ada PO", redirect to /procurement
              Respond(t, "create_po", pr_id, "already_has_po")
         ELSE \E m \in {"GET", "POST"} :
              /\ m = "POST" => Admit("create_po")
              /\ Goto(t, NewReq("create_po", u, m, pr_id, "po_select_pr"))

\* statuses create_po accepts in its SELECT of the PR
PoEligibleStatus == {"SUBMITTED", "BUDGET_EXCEPTION_PENDING"}

\* SELECT of the PR, quotation rule, and for POST the po_no validation
po_select_pr(t) ==
  LET r == req[t] IN
  /\ At(t, "po_select_pr")
  /\ UNCHANGED db
  /\ IF r.pr_id \notin DOMAIN db.pr
        \/ db.pr[r.pr_id].status \notin PoEligibleStatus
     THEN Respond(t, r.handler, r.pr_id, "refused")
     ELSE IF db.pr[r.pr_id].quotation_filename = NULL
     THEN Respond(t, r.handler, r.pr_id, "refused")
     ELSE IF r.method = "GET" THEN Respond(t, r.handler, r.pr_id, "ok")
     ELSE \E raw \in RawPoNos :
            IF Strip(raw) = <<>> THEN Respond(t, r.handler, r.pr_id, "refused")
            ELSE Goto(t, [r EXCEPT !.pc = "po_select_po_no",
                                   !.po_no = Strip(raw),
                                   !.pr_total = db.pr[r.pr_id].total_amount,
                                   !.created_by = db.pr[r.pr_id].created_by])

\* SELECT po_no FROM po WHERE po_no=?
po_select_po_no(t) ==
  LET r == req[t] IN
  /\ At(t, "po_select_po_no")
  /\ UNCHANGED db
  /\ IF \E i \in DOMAIN db.po : db.po[i].po_no = r.po_no
     THEN Respond(t, r.handler, r.pr_id, "refused")
     ELSE Goto(t, [r EXCEPT !.pc = "po_insert"])

\* the po table without the UNIQUE constraint on pr_id
PoUniqueOK_NoPrId(pos, pr_id, po_no) ==
  \A i \in DOMAIN pos : pos[i].po_no # po_no

\* po.pr_id UNIQUE and po.po_no UNIQUE
PoUniqueOK(pos, pr_id, po_no) ==
  \A i \in DOMAIN pos : pos[i].pr_id # pr_id /\ pos[i].po_no # po_no

\* INSERT INTO po ...; UPDATE pr SET status='PO_CREATED' WHERE id=?
PoWrites(d, r) ==
  [d EXCEPT
    !.po = Append(@, [pr_id |-> r.pr_id, po_no |-> r.po_no,
                      total_amount |-> r.pr_total]),
    !.pr = [id \in DOMAIN @ |->
              IF id = r.pr_id THEN [@[id] EXCEPT !.status = "PO_CREATED"]
              ELSE @[id]]]

\* the POST branch of create_po: the writes, log_action, audit_log, two
\* create_notification, commit and the success flash
po_insert(t) ==
  LET r == req[t] IN
  /\ At(t, "po_insert")
  /\ IF ~PoUniqueOK(db.po, r.pr_id, r.po_no)
     THEN \* IntegrityError: rollback, "Error creating PO"
          Respond(t, r.handler, r.pr_id, "generic_error") /\ UNCHANGED db
     ELSE /\ db' = LogAuditNotify(PoWrites(db, r), r.pr_id, "PO_CREATED",
                                  <<r.user, r.created_by>>)
          /\ Respond(t, r.handler, r.pr_id, "ok")

\* -------------------------------------------------------------- the system
Next ==
  \/ send_response
  \/ \E t \in Threads :
    \/ pr_new_request(t)
    \/ pr_new_check_budget(t)
    \/ pr_new_generate_pr_no(t)
    \/ pr_new_insert(t)
    \/ bex_request(t)
    \/ bex_update(t)
    \/ po_request(t)
    \/ po_select_pr(t)
    \/ po_select_po_no(t)
    \/ po_insert(t)

Spec == Init /\ [][Next]_vars

\* ------------------------------------------------ one request at a time
\* no other thread is serving a request
Alone(t) == \A t2 \in Threads \ {t} : req[t2].pc = "idle"

\* the same handlers when each request is served to its end before the next
\* one arrives
NextSeq ==
  \/ send_response
  \/ \E t \in Threads :
    \/ Alone(t) /\ pr_new_request(t)
    \/ Alone(t) /\ pr_new_check_budget(t)
    \/ Alone(t) /\ pr_new_generate_pr_no(t)
    \/ Alone(t) /\ pr_new_insert(t)
    \/ Alone(t) /\ bex_request(t)
    \/ Alone(t) /\ bex_update(t)
    \/ Alone(t) /\ po_request(t)
    \/ Alone(t) /\ po_select_pr(t)
    \/ Alone(t) /\ po_select_po_no(t)
    \/ Alone(t) /\ po_insert(t)

SpecSeq == Init /\ [][NextSeq]_vars

\* ----------------------------------------------------- db(): unit of work
\* One worker thread serving requests one after another on its connection.
\* The environment decides the outcome of connecting, of every write
\* statement and of every commit: "ok", sqlite3.OperationalError('database
\* is locked') or any other exception.
max_retries == 5
retry_delay == 100            \* 0.1 s, in milliseconds
MaxRuns == 2

Outcomes == {"ok", "locked", "error"}

\* conn.commit() outside a transaction with writes has nothing to do
CommitOutcomes(pending) == IF pending = {} THEN {"ok"} ELSE Outcomes

\* units of work that share the thread's connection
UowHandlers == {"pr_new", "create_po", "check_budget_availability"}

Write(tbl) == [kind |-> "write", table |-> tbl]
Nested(fn, tbl) == [kind |-> fn, table |-> tbl]

\* the writing statements of a handler's `with db()` block, in program order
Program(h) ==
  CASE h = "pr_new" ->
         <<Write("pr"), Write("pr.quotation_filename"), Write("pr_items"),
           Write("pr_quotation"), Write("budget_categories"),
           Nested("log_action", "approval_history"),
           Nested("audit_log", "audit_log"),
           Nested("create_notification", "notifications")>>
    [] h = "create_po" ->
         <<Write("po"), Write("pr.status"),
           Nested("log_action", "approval_history"),
           Nested("audit_log", "audit_log"),
           Nested("create_notification", "notifications"),
           Nested("create_notification", "notifications")>>
    [] OTHER -> <<>>

CurrentRun == Len(uow.runs)
CurrentProgram == Program(uow.runs[CurrentRun].handler)

\* the inner `except` clauses of db() for exception e raised by the block or
\* by conn.commit() on loop pass `attempt`: a 'locked' error before the last
\* pass sleeps and continues the loop, which yields a second time, so the
\* caller gets RuntimeError("generator didn't stop") and conn.rollback() is
\* not called; any other failure rolls back and is raised again
AfterFailure(pending, attempt, e) ==
  IF e = "locked" /\ attempt < max_retries - 1
  THEN [pending |-> pending, sleep |-> <<retry_delay * 2^attempt>>,
        raised |-> "RuntimeError"]
  ELSE [pending |-> {}, sleep |-> <<>>, raised |-> e]

\* the handler's `with db()` is over: it fell through (success is reported)
\* or exception e reached the handler's `except Exception`
Finish(u, report, e) ==
  [u EXCEPT !.phase = "idle", !.pc = 0,
            !.runs[Len(u.runs)].report = report,
            !.runs[Len(u.runs)].raised = e]

\* exception e leaves the handler's block or its commit
Raise(u, e) ==
  LET f == AfterFailure(u.pending, u.attempt, e)
      n == Len(u.runs)
  IN  Finish([u EXCEPT !.pending = f.pending,
                       !.slept = @ \o f.sleep,
                       !.runs[n].locked = @ + (IF e = "locked" THEN 1 ELSE 0),
                       !.runs[n].failed = TRUE],
             "error", f.raised)

\* a request arrives and its handler calls db()
uow_request ==
  /\ uow.phase = "idle"
  /\ Len(uow.runs) < MaxRuns
  /\ \E h \in UowHandlers :
       uow' = [uow EXCEPT
                 !.phase = "enter", !.attempt = 0, !.slept = <<>>,
                 !.runs = Append(@, [handler |-> h, report |-> "running",
                                     raised |-> "none", locked |-> 0,
                                     failed |-> FALSE])]
  /\ UNCHANGED <<db, req, resp>>

\* one pass of the loop of db() up to the yield: connect and set the PRAGMAs
\* when the thread has no connection; the outer `except` retries a 'locked'
\* failure with a fresh connection, at most max_retries passes
db_connect ==
  /\ uow.phase = "enter"
  /\ IF uow.connected
     THEN uow' = [uow EXCEPT !.phase = "body", !.pc = 1]
     ELSE \E o \in Outcomes :
            CASE o = "ok" ->
                   uow' = [uow EXCEPT !.connected = TRUE, !.phase = "body",
                                      !.pc = 1]
              [] o = "locked" /\ uow.attempt < max_retries - 1 ->
                   uow' = [uow EXCEPT
                             !.attempt = @ + 1,
                             !.slept = Append(@, retry_delay * 2^uow.attempt),
                             !.runs[CurrentRun].locked = @ + 1,
                             !.runs[CurrentRun].failed = TRUE]
              [] OTHER ->
                   \* raised to the caller; a connection whose PRAGMA failed
                   \* stays in thread_local
                   \E c \in BOOLEAN :
                     uow' = Finish(
                       [uow EXCEPT
                          !.connected = c,
                          !.runs[CurrentRun].locked =
                             @ + (IF o = "locked" THEN 1 ELSE 0),
                          !.runs[CurrentRun].failed = TRUE],
                       "error", o)
  /\ UNCHANGED <<db, req, resp>>

\* conn.execute() of a write statement in the handler's block
block_write ==
  /\ uow.phase = "body"
  /\ uow.pc \in DOMAIN CurrentProgram
  /\ CurrentProgram[uow.pc].kind = "write"
  /\ \E o \in Outcomes :
       IF o = "ok"
       THEN uow' = [uow EXCEPT !.pending = @ \cup {<<CurrentRun, uow.pc>>},
                               !.pc = @ + 1]
       ELSE uow' = Raise(uow, o)
  /\ UNCHANGED <<db, req, resp>>

\* log_action, audit_log or create_notification called in the handler's
\* block: `try: with db() as conn: INSERT ... except Exception:` (a message
\* only), a db() call of its own (first pass) on the same connection
nested_unit ==
  /\ uow.phase = "body"
  /\ uow.pc \in DOMAIN CurrentProgram
  /\ CurrentProgram[uow.pc].kind # "write"
  /\ \E ins \in Outcomes :
       IF ins = "ok"
       THEN LET issued == uow.pending \cup {<<CurrentRun, uow.pc>>} IN
            \E com \in Outcomes :
              IF com = "ok"
              THEN uow' = [uow EXCEPT !.store = @ \cup issued,
                                      !.pending = {}, !.pc = @ + 1]
              ELSE uow' = [uow EXCEPT
                             !.pending = AfterFailure(issued, 0, com).pending,
                             !.pc = @ + 1,
                             !.runs[CurrentRun].failed = TRUE]
       ELSE uow' = [uow EXCEPT
                      !.pending = AfterFailure(uow.pending, 0, ins).pending,
                      !.pc = @ + 1,
                      !.runs[CurrentRun].failed = TRUE]
  /\ UNCHANGED <<db, req, resp>>

\* the handler's block falls through: conn.commit(), break
block_exit ==
  /\ uow.phase = "body"
  /\ uow.pc = Len(CurrentProgram) + 1
  /\ \E o \in CommitOutcomes(uow.pending) :
       IF o = "ok"
       THEN uow' = Finish([uow EXCEPT !.store = @ \cup uow.pending,
                                      !.pending = {}],
                          "success", "none")
       ELSE uow' = Raise(uow, o)
  /\ UNCHANGED <<db, req, resp>>

NextUow ==
  \/ uow_request
  \/ db_connect
  \/ block_write
  \/ nested_unit
  \/ block_exit

SpecUow == Init /\ [][NextUow]_vars

\* ------------------------------------------------------------- properties
\* thread t takes this step
Steps(t) == req'[t] # req[t]

\* thread t commits the transaction of its handler in this step
PoInserted(t) == At(t, "po_insert") /\ Steps(t) /\ Len(db'.po) > Len(db.po)
BexApplied(t) == At(t, "bex_update") /\ Steps(t) /\ db'.pr # db.pr

\* number of approval_history rows of pr_id with the given action
HistoryCount(d, pr_id, action) ==
  Cardinality({i \in DOMAIN d.approval_history :
                 d.approval_history[i] = [pr_id |-> pr_id, action |-> action]})

\* C1: create_po inserts a PO row for a PR only if the PR's status is
\* SUBMITTED at that moment; a PR that is BUDGET_EXCEPTION_PENDING, REJECTED
\* or PO_CREATED never gets a PO.
C1_PoOnlyForSubmitted ==
  [][\A t \in Threads :
       PoInserted(t) => db.pr[req[t].pr_id].status = "SUBMITTED"]_vars

\* C2: once a PR's status is PO_CREATED no later operation changes its
\* status, and its PO row is never removed.
C2_PoCreatedTerminal ==
  [][\A id \in DOMAIN db.pr :
       db.pr[id].status = "PO_CREATED"
         => /\ db'.pr[id].status = "PO_CREATED"
            /\ ExistingPO(db'.po, id)]_vars

\* C3: REJECTED is terminal: once a PR's status is REJECTED no later
\* operation changes its status or its budget_status.
C3_RejectedTerminal ==
  [][\A id \in DOMAIN db.pr :
       db.pr[id].status = "REJECTED"
         => /\ db'.pr[id].status = "REJECTED"
            /\ db'.pr[id].budget_status = db.pr[id].budget_status]_vars

\* C4: a budget-exception approve or reject modifies a PR only when the
\* PR's status is BUDGET_EXCEPTION_PENDING at the time of the action.
C4_BexOnlyWhenPending ==
  [][\A t \in Threads :
       BexApplied(t)
         => db.pr[req[t].pr_id].status = "BUDGET_EXCEPTION_PENDING"]_vars

\* C5: of two concurrent budget-exception approve requests for one PR only
\* one applies the transition: a PR never has a second
\* BUDGET_EXCEPTION_APPROVE history entry.
C5_SingleApprove ==
  \A id \in DOMAIN db.pr :
    HistoryCount(db, id, "BUDGET_EXCEPTION_APPROVE") <= 1

\* the PO table of d holds a row for PR id
HasPO(d, id) == \E i \in DOMAIN d.po : d.po[i].pr_id = id

\* C6: no two PO rows have the same pr_id and no two have the same po_no,
\* under any interleaving of create_po requests: of two requests racing for
\* one PR at most one leaves a PO row, the loser leaves none.
C6_PoUnique ==
  \A i, j \in DOMAIN db.po :
    i # j => /\ db.po[i].pr_id # db.po[j].pr_id
             /\ db.po[i].po_no # db.po[j].po_no

\* a create_po POST passed both SELECTs, lost the race for its PR and was
\* answered "Error creating PO"; the one PO row belongs to the winner
C6_RaceLost ==
  /\ resp.handler = "create_po"
  /\ resp.outcome = "generic_error"
  /\ Len(db.po) = 1
  /\ db.po[1].pr_id = resp.pr_id

\* thread t receives a create_po request for PR id in this step
CreatePoArrives(t, id) ==
  /\ req[t].pc = "idle"
  /\ \/ req'[t].handler = "create_po" /\ req'[t].pr_id = id
     \/ /\ resp' # resp
        /\ resp'.thread = t
        /\ resp'.handler = "create_po"
        /\ resp'.pr_id = id

\* thread t, serving a create_po request for PR id, takes this step
CreatePoSteps(t, id) ==
  /\ req[t].handler = "create_po"
  /\ req[t].pr_id = id
  /\ Steps(t)

\* C7: a create_po request (GET or POST, any po_no) for a PR that already
\* has a PO row is answered with the "already has a PO" rejection, and no
\* step of a create_po request for such a PR changes any table.
C7_SecondPoRefused ==
  [][\A t \in Threads, id \in 1..MaxPR :
       HasPO(db, id) =>
         /\ CreatePoArrives(t, id) =>
              /\ resp'.thread = t
              /\ resp'.outcome = "already_has_po"
              /\ db' = db
         /\ CreatePoSteps(t, id) => db' = db]_vars

\* a create_po request for a PR with a PO row has been refused
C7_Refused ==
  /\ resp.handler = "create_po"
  /\ resp.outcome = "already_has_po"
  /\ HasPO(db, resp.pr_id)

\* thread t runs check_budget_availability in this step
BudgetChecked(t) ==
  At(t, "check_budget_availability") /\ req'[t].pc = "generate_pr_no"

\* a matching budget row exists in d and its allocated_amount - spent_amount
\* covers the amount
RowCovers(d, department, category, fiscal_year, amount) ==
  LET key == <<department, category, fiscal_year>> IN
  /\ key \in DOMAIN d.budget_categories
  /\ d.budget_categories[key].allocated_amount
       - d.budget_categories[key].spent_amount >= amount

\* thread t commits a new PR in this step
PrCreated(t) ==
  /\ At(t, "pr_new_insert")
  /\ Steps(t)
  /\ DOMAIN db'.pr # DOMAIN db.pr

\* C8: a successful PR creation stores (IN_BUDGET, SUBMITTED) exactly when a
\* budget category was given and the check, which did not fail, found a
\* matching row whose remaining amount was >= total_amount; otherwise it
\* stores (OUT_OF_BUDGET, BUDGET_EXCEPTION_PENDING).
C8_InitialStatus ==
  [][\A t \in Threads :
       /\ BudgetChecked(t) =>
            (req'[t].budget_check.message = "Within budget"
               <=> /\ req'[t].budget_check.message # "Error checking budget"
                   /\ RowCovers(db, req[t].department,
                                req[t].budget_category, req[t].fiscal_year,
                                req[t].total_amount))
       /\ PrCreated(t) =>
            LET row == db'.pr[db'.pr_seq] IN
            IF /\ req[t].budget_category # ""
               /\ req[t].budget_check.message = "Within budget"
            THEN row.budget_status = "IN_BUDGET" /\ row.status = "SUBMITTED"
            ELSE /\ row.budget_status = "OUT_OF_BUDGET"
                 /\ row.status = "BUDGET_EXCEPTION_PENDING"]_vars

\* both kinds of PR have been created: one in budget, one out of budget
C8_BothKinds ==
  /\ resp.handler = "pr_new"
  /\ resp.outcome = "ok"
  /\ \E a, b \in DOMAIN db.pr :
       /\ db.pr[a].budget_status = "IN_BUDGET"
       /\ db.pr[a].status = "SUBMITTED"
       /\ db.pr[b].budget_status = "OUT_OF_BUDGET"
       /\ db.pr[b].status = "BUDGET_EXCEPTION_PENDING"

\* thread t commits a budget-exception approve in this step
BexApproves(t) ==
  At(t, "bex_update") /\ Steps(t) /\ req[t].action = "approve"

\* C9: a budget-exception approve on a PR that is BUDGET_EXCEPTION_PENDING
\* and OUT_OF_BUDGET sets budget_status = EXCEPTION_APPROVED and status =
\* SUBMITTED and records the approver; total_amount, the line items, every
\* budget category and all other PRs stay as they were.
C9_ApproveEffect ==
  [][\A t \in Threads :
       LET id == req[t].pr_id IN
       (/\ BexApproves(t)
        /\ db.pr[id].status = "BUDGET_EXCEPTION_PENDING"
        /\ db.pr[id].budget_status = "OUT_OF_BUDGET")
       => /\ db'.pr[id].budget_status = "EXCEPTION_APPROVED"
          /\ db'.pr[id].status = "SUBMITTED"
          /\ db'.pr[id].budget_exception_approver = req[t].user
          /\ UserRole[req[t].user] = "superadmin"
          /\ db'.pr[id].total_amount = db.pr[id].total_amount
          /\ db'.pr_items = db.pr_items
          /\ db'.budget_categories = db.budget_categories
          /\ DOMAIN db'.pr = DOMAIN db.pr
          /\ \A o \in DOMAIN db.pr : o # id => db'.pr[o] = db.pr[o]]_vars

\* an approve has been answered while another PR is still pending
C9_Approved ==
  /\ resp.handler = "budget_exception_approval"
  /\ resp.outcome = "ok"
  /\ resp.pr_id \in DOMAIN db.pr
  /\ db.pr[resp.pr_id].budget_status = "EXCEPTION_APPROVED"
  /\ db.pr[resp.pr_id].status = "SUBMITTED"
  /\ \E o \in DOMAIN db.pr :
       o # resp.pr_id /\ db.pr[o].status = "BUDGET_EXCEPTION_PENDING"

BudgetKey(row) == <<row.department, row.budget_category, row.fiscal_year>>

\* the PRs of d stored IN_BUDGET for the budget key
InBudgetPRs(d, key) ==
  {id \in DOMAIN d.pr :
     d.pr[id].budget_status = "IN_BUDGET" /\ BudgetKey(d.pr[id]) = key}

RECURSIVE SumTotals(_, _)
SumTotals(prs, ids) ==
  IF ids = {} THEN 0
  ELSE LET id == CHOOSE x \in ids : TRUE
       IN prs[id].total_amount + SumTotals(prs, ids \ {id})

C12_SpentNeverDecreases ==
  [][\A key \in DOMAIN db.budget_categories :
       db'.budget_categories[key].spent_amount
         >= db.budget_categories[key].spent_amount]_vars

\* C13: the availability check and the reservation are not one atomic step:
\* an in-budget PR creation adds its total to spent_amount whatever the
\* remaining amount is by then; its check, made earlier, had found the total
\* covered.  Two creations that each pass their check can so overspend.
C13_ReserveUnguarded ==
  [][\A t \in Threads :
       (PrCreated(t) /\ db'.pr[db'.pr_seq].budget_status = "IN_BUDGET")
       => LET key == <<req[t].department, req[t].budget_category,
                       req[t].fiscal_year>>
          IN /\ req[t].budget_check.remaining >= req[t].total_amount
             /\ db'.budget_categories[key].spent_amount =
                  db.budget_categories[key].spent_amount
                    + req[t].total_amount]_vars

\* two PRs of one category, each within the allocated amount, are both
\* stored IN_BUDGET and the category is overspent
C13_Overspent ==
  \E a, b \in DOMAIN db.pr :
    LET key == BudgetKey(db.pr[a]) IN
    /\ a # b
    /\ BudgetKey(db.pr[b]) = key
    /\ key \in DOMAIN db.budget_categories
    /\ db.pr[a].budget_status = "IN_BUDGET"
    /\ db.pr[b].budget_status = "IN_BUDGET"
    /\ db.pr[a].total_amount > 0
    /\ db.pr[b].total_amount > 0
    /\ db.pr[a].total_amount <= db.budget_categories[key].allocated_amount
    /\ db.pr[b].total_amount <= db.budget_categories[key].allocated_amount
    /\ db.budget_categories[key].spent_amount
         > db.budget_categories[key].allocated_amount

PrNewRejected(t) ==
  /\ req[t].pc = "idle" \/ req[t].handler = "pr_new"
  /\ Steps(t)
  /\ resp'.thread = t
  /\ resp'.handler = "pr_new"
  /\ resp'.outcome \in {"refused", "generic_error"}

\* C18: a PR creation request that fails validation (no file, empty file
\* name, disallowed file type, empty item list, non-numeric item value,
\* unknown or inactive vendor) ends with a message and leaves pr, pr_items,
\* pr_quotation, approval_history and budget_categories as they were.
C18_RejectedLeavesTables ==
  [][\A t \in Threads :
       PrNewRejected(t) =>
         /\ db'.pr = db.pr
         /\ db'.pr_items = db.pr_items
         /\ db'.pr_quotation = db.pr_quotation
         /\ db'.approval_history = db.approval_history
         /\ db'.budget_categories = db.budget_categories]_vars

\* a creation was refused after its PR row had been inserted and deleted
\* again: the id is consumed, the tables hold an earlier PR only
C18_RefusedAfterInsert ==
  /\ resp.handler = "pr_new"
  /\ resp.outcome = "refused"
  /\ DOMAIN db.pr # {}
  /\ \A id \in DOMAIN db.pr : id < db.pr_seq

\* thread t receives a budget-exception request for PR id in this step
BexArrives(t, id) ==
  /\ req[t].pc = "idle"
  /\ \/ req'[t].handler = "budget_exception_approval" /\ req'[t].pr_id = id
     \/ /\ resp' # resp
        /\ resp'.thread = t
        /\ resp'.handler = "budget_exception_approval"
        /\ resp'.pr_id = id

\* C19: a budget-exception request for a PR that does not exist, or whose
\* budget_status is not OUT_OF_BUDGET, ends with an HTTP 404 outcome, not
\* with a redirect and a generic error message; no state changes.
C19_NotFoundIs404 ==
  [][\A t \in Threads, id \in 1..MaxPR :
       (/\ BexArrives(t, id)
        /\ \/ id \notin DOMAIN db.pr
           \/ db.pr[id].budget_status # "OUT_OF_BUDGET")
       => resp'.outcome = "404" /\ db' = db]_vars

\* C20: state changes only under the required session role: a PR row is
\* created only by role user, a budget-exception action is applied only by
\* role superadmin, a PO is created only by role procurement or superadmin;
\* no request gets past the decorators with another role or without a
\* session, and a request answered 403 or redirected to login changes nothing.
C20_RoleRequired ==
  [][\A t \in Threads :
       Steps(t) =>
         /\ req'[t].pc # "idle" =>
              /\ req'[t].user \in DOMAIN UserRole
              /\ req'[t].handler = "pr_new"
                   => UserRole[req'[t].user] = "user"
              /\ req'[t].handler = "budget_exception_approval"
                   => UserRole[req'[t].user] = "superadmin"
              /\ req'[t].handler = "create_po"
                   => UserRole[req'[t].user] \in {"procurement", "superadmin"}
         /\ db' # db =>
              /\ req[t].pc # "idle"
              /\ req[t].user \in DOMAIN UserRole
              /\ DOMAIN db'.pr # DOMAIN db.pr
                   => UserRole[req[t].user] = "user"
              /\ (\E id \in DOMAIN db.pr : db'.pr[id] # db.pr[id]
                                           /\ db'.po = db.po)
                   => UserRole[req[t].user] = "superadmin"
              /\ db'.po # db.po
                   => UserRole[req[t].user] \in {"procurement", "superadmin"}
         /\ (req[t].pc = "idle" /\ resp'.outcome \in {"login", "403"})
              => db' = db]_vars

\* a session was refused with 403 while a PR awaits its budget exception
C20_Refused ==
  /\ resp.outcome = "403"
  /\ resp.handler = "budget_exception_approval"
  /\ \E id \in DOMAIN db.pr : db.pr[id].status = "BUDGET_EXCEPTION_PENDING"

\* ---- db() units of work (SpecUow)
\* the writes issued by the handler's own statements of request n
BlockWrites(n) ==
  {<<n, k>> : k \in {i \in DOMAIN Program(uow.runs[n].handler) :
                        Program(uow.runs[n].handler)[i].kind = "write"}}

\* the write of request n to table tbl is in the committed database
Committed(n, tbl) ==
  \E w \in uow.store :
    w[1] = n /\ Program(uow.runs[n].handler)[w[2]].table = tbl

\* C14: a db() unit of work is atomic: when the handler's block or its commit
\* failed (db() raised to the handler), none of the writes of the block is in
\* the committed database, now or after a later unit of work on the same
\* connection; when nothing failed, all of them are.
C14_UnitOfWorkAtomic ==
  \A n \in DOMAIN uow.runs :
    /\ uow.runs[n].report = "error" => BlockWrites(n) \cap uow.store = {}
    /\ uow.runs[n].report = "success" /\ ~uow.runs[n].failed
         => BlockWrites(n) \subseteq uow.store

\* C15: no transition is applied in part: a committed pr row has its items,
\* quotation and budget increment, a committed po row has the status change
\* of its PR, and a handler that reports success has committed its writes,
\* whichever statement failed, those of log_action, audit_log and
\* create_notification included.
C15_NoPartialTransition ==
  \A n \in DOMAIN uow.runs :
    /\ uow.runs[n].handler = "pr_new" /\ Committed(n, "pr")
         => /\ Committed(n, "pr_items")
            /\ Committed(n, "pr_quotation")
            /\ Committed(n, "budget_categories")
    /\ uow.runs[n].handler = "create_po" /\ Committed(n, "po")
         => Committed(n, "pr.status")
    /\ uow.runs[n].report = "success" => BlockWrites(n) \subseteq uow.store

\* C16: db() makes at most max_retries passes and waits retry_delay * 2^k
\* after the k-th 'locked' failure (k from 0); a failure is raised to the
\* caller only for an error that is not 'locked' or after the fifth 'locked'
\* failure, and a unit of work whose 'locked' failures stopped before the
\* fifth ends with its writes committed.
C16_BoundedRetry ==
  /\ uow.attempt < max_retries
  /\ \A k \in DOMAIN uow.slept : uow.slept[k] = retry_delay * 2^(k - 1)
  /\ \A n \in DOMAIN uow.runs :
       uow.runs[n].report = "error"
         => \/ uow.runs[n].raised = "error"
            \/ uow.runs[n].locked = max_retries

\* ---- history and lifetime of a PR
\* the history action of the transition thread t commits in this step
Transition(t) ==
  IF PrCreated(t) THEN "PR_CREATED"
  ELSE IF At(t, "bex_update") /\ Steps(t)
       THEN IF req[t].action = "approve" THEN "BUDGET_EXCEPTION_APPROVE"
                                         ELSE "BUDGET_EXCEPTION_REJECT"
  ELSE IF PoInserted(t) THEN "PO_CREATED"
  ELSE "none"

\* the PR of that transition
TransitionPr(t) == IF PrCreated(t) THEN db.pr_seq + 1 ELSE req[t].pr_id

PrIdentity(row) ==
  [pr_no |-> row.pr_no, fiscal_year |-> row.fiscal_year,
   created_by |-> row.created_by, department |-> row.department,
   budget_category |-> row.budget_category,
   total_amount |-> row.total_amount,
   quotation_filename |-> row.quotation_filename]

\* C22: a committed PR is never removed: every PR of the database is still
\* there after any step, the cleanup DELETE of a refused creation included,
\* and only its status, budget_status and budget-exception columns change.
C22_PrNeverRemoved ==
  [][\A id \in DOMAIN db.pr :
       /\ id \in DOMAIN db'.pr
       /\ PrIdentity(db'.pr[id]) = PrIdentity(db.pr[id])
       /\ id \in DOMAIN db'.pr_items /\ db'.pr_items[id] = db.pr_items[id]]_vars

\* PR 1 was committed and has changed status since, then a creation was
\* refused after its INSERT (id 2 consumed by the deleted row)
C22_DeleteAfterCommit ==
  /\ 1 \in DOMAIN db.pr
  /\ db.pr[1].status = "PO_CREATED"
  /\ db.pr_seq = 2
  /\ 2 \notin DOMAIN db.pr

C25_PrNoSequential ==
  [][/\ \A t \in Threads :
          At(t, "generate_pr_no") /\ Steps(t)
            => LET k == Cardinality({id \in DOMAIN db.pr :
                          db.pr[id].department = req[t].department}) + 1
               IN /\ req'[t].pr_no
                       = <<CurrentYear, Upper(req[t].department), k>>
                  /\ \A id \in DOMAIN db.pr : db.pr[id].pr_no # req'[t].pr_no
     /\ \A i, j \in DOMAIN db'.pr :
          i # j => db'.pr[i].pr_no # db'.pr[j].pr_no]_vars

\* ---- status pairs
\* C26: every PR's (status, budget_status) pair is consistent: the status is
\* SUBMITTED, BUDGET_EXCEPTION_PENDING, REJECTED or PO_CREATED; a pending or
\* rejected PR is OUT_OF_BUDGET; a SUBMITTED PR is IN_BUDGET or
\* EXCEPTION_APPROVED; an IN_BUDGET PR is never REJECTED.
C26_StatusPairConsistent ==
  \A id \in DOMAIN db.pr :
    LET st == db.pr[id].status
        bs == db.pr[id].budget_status
    IN /\ st \in {"SUBMITTED", "BUDGET_EXCEPTION_PENDING", "REJECTED",
                  "PO_CREATED"}
       /\ st \in {"BUDGET_EXCEPTION_PENDING", "REJECTED"}
            => bs = BUDGET_STATUS.OUT_OF_BUDGET
       /\ st = "SUBMITTED"
            => bs \in {BUDGET_STATUS.IN_BUDGET,
                       BUDGET_STATUS.EXCEPTION_APPROVED}
       /\ bs = BUDGET_STATUS.IN_BUDGET => st # "REJECTED"

\* C27: a PR has a PO row if and only if its status is PO_CREATED.
C27_PoIffPoCreated ==
  \A id \in DOMAIN db.pr : HasPO(db, id) <=> db.pr[id].status = "PO_CREATED"

\* thread t commits a budget-exception reject in this step
BexRejects(t) ==
  At(t, "bex_update") /\ Steps(t) /\ req[t].action = "reject"

\* C30: a PR's budget_status changes at most once and only from
\* OUT_OF_BUDGET to EXCEPTION_APPROVED through a budget-exception approve:
\* IN_BUDGET and EXCEPTION_APPROVED are never left, a reject leaves the
\* budget_status at OUT_OF_BUDGET, and budget_exception_approver is set
\* exactly when the budget_status is EXCEPTION_APPROVED.
C30_BudgetStatusOnce ==
  [][/\ \A id \in DOMAIN db.pr :
          db'.pr[id].budget_status # db.pr[id].budget_status
            => /\ db.pr[id].budget_status = BUDGET_STATUS.OUT_OF_BUDGET
               /\ db'.pr[id].budget_status = BUDGET_STATUS.EXCEPTION_APPROVED
               /\ \E t \in Threads : BexApproves(t) /\ req[t].pr_id = id
     /\ \A t \in Threads :
          BexRejects(t)
            => db'.pr[req[t].pr_id].budget_status
                 = BUDGET_STATUS.OUT_OF_BUDGET
     /\ \A id \in DOMAIN db'.pr :
          db'.pr[id].budget_exception_approver # 0
            <=> db'.pr[id].budget_status
                  = BUDGET_STATUS.EXCEPTION_APPROVED]_vars

\* ---- budget with one request at a time (SpecSeq)
\* C28: with requests served one at a time and every PR total >= 0, no
\* budget category is overspent: spent_amount <= allocated_amount in every
\* state, and a creation reserves only a total that the remaining amount
\* covers.
C28_NoOverspendSequential ==
  [][/\ (\A id \in DOMAIN db'.pr : db'.pr[id].total_amount >= 0)
          => \A key \in DOMAIN db'.budget_categories :
               db'.budget_categories[key].spent_amount
                 <= db'.budget_categories[key].allocated_amount
     /\ \A t \in Threads :
          PrCreated(t) /\ db'.budget_categories # db.budget_categories
            => /\ BudgetKey(db'.pr[db.pr_seq + 1]) \in DOMAIN db.budget_categories
               /\ req[t].total_amount
                    <= remaining_amount(
                         db.budget_categories[BudgetKey(db'.pr[db.pr_seq + 1])])
    ]_vars

\* a category is used up and a later PR for it, with a positive total, was
\* stored out of budget without a reservation
C28_FullThenOutOfBudget ==
  \E key \in DOMAIN db.budget_categories :
    /\ db.budget_categories[key].spent_amount
         = db.budget_categories[key].allocated_amount
    /\ \E id \in DOMAIN db.pr :
         /\ BudgetKey(db.pr[id]) = key
         /\ db.pr[id].total_amount > 0
         /\ db.pr[id].budget_status = BUDGET_STATUS.OUT_OF_BUDGET
    /\ \A id \in DOMAIN db.pr : db.pr[id].total_amount >= 0

====
